---- MODULE Spec2Model ----
(***************************************************************************)
(* AMultilayer (src/src/AMultilayer.cxx): a multilayer stack with          *)
(* semi-infinite top and bottom media, and the coherent transfer-matrix    *)
(* solve over it.                                                          *)
(*                                                                         *)
(* Number representation.  A complex double is a pair <<re, im>> of        *)
(* integers in fixed point; the unit is EPSILON, so the tolerance          *)
(* 100 * EPSILON of the source is the integer 100.  A double that may be   *)
(* infinite or NaN (a thickness, a wavevector, a phase) is an extended     *)
(* value <<kind, v>> with kind "fin", "inf" (v = sign) or "nan".  The      *)
(* factor TwoPi of kz is absorbed into the unit of thickness, so that the  *)
(* phase delta = kz * d is compared with the source's literal 35.          *)
(*                                                                         *)
(* An angle is carried by its sine and cosine, [s |-> sin, c |-> cos]:     *)
(* the code reads an angle only through std::sin, std::cos, std::conj and  *)
(* pi - theta.  std::asin cannot be computed on integers; the principal    *)
(* values it returns for a solve are an input of the solve (one angle per  *)
(* refractive index, with Re(cos) >= 0 as on the principal branch).        *)
(***************************************************************************)
EXTENDS Integers, Sequences, FiniteSets, TLC

VARIABLES fRefractiveIndexList, fThicknessList, ctor_args, inserted,
          opacity_warning, notices, call, fwd, thr

vars == <<fRefractiveIndexList, fThicknessList, ctor_args, inserted,
          opacity_warning, notices, call, fwd, thr>>

stackVars == <<fRefractiveIndexList, fThicknessList, ctor_args, inserted>>

\* ------------------------------------------------------------------ bounds
MaxLayers == 4
MaxNotices == 2
MaxThreads == 2

\* --------------------------------------------------------- complex numbers
Re(z) == z[1]
Im(z) == z[2]
CMul(a, b) == <<a[1] * b[1] - a[2] * b[2], a[1] * b[2] + a[2] * b[1]>>
CAdd(a, b) == <<a[1] + b[1], a[2] + b[2]>>
CSub(a, b) == <<a[1] - b[1], a[2] - b[2]>>
CNeg(a) == <<0 - a[1], 0 - a[2]>>
Conj(a) == <<a[1], 0 - a[2]>>
Abs(x) == IF x < 0 THEN 0 - x ELSE x

\* ------------------------------------------------------------------ angles
Sin(theta) == theta.s
Cos(theta) == theta.c
ConjAngle(theta) == [s |-> Conj(theta.s), c |-> Conj(theta.c)]
PiMinus(theta) == [s |-> theta.s, c |-> CNeg(theta.c)]

\* --------------------------------------------------------- extended doubles
Fin(v) == <<"fin", v>>
PosInf == <<"inf", 1>>
NegInf == <<"inf", -1>>
NaN == <<"nan", 0>>
inf == PosInf
Sign(v) == IF v > 0 THEN 1 ELSE IF v < 0 THEN -1 ELSE 0

XMul(a, b) ==
  IF a[1] = "nan" \/ b[1] = "nan" THEN NaN
  ELSE IF a[1] = "fin" /\ b[1] = "fin" THEN Fin(a[2] * b[2])
  ELSE IF Sign(a[2]) * Sign(b[2]) = 0 THEN NaN
  ELSE <<"inf", Sign(a[2]) * Sign(b[2])>>

\* a / lam for a finite a and a finite lam (IEEE: x/0 = +-inf, 0/0 = NaN)
XDiv(a, lam) ==
  IF lam = 0 THEN (IF a = 0 THEN NaN ELSE <<"inf", Sign(a)>>)
  ELSE IF lam > 0 THEN Fin(Sign(a) * (Abs(a) \div lam))
  ELSE Fin((0 - Sign(a)) * (Abs(a) \div (0 - lam)))

XGt(a, c) ==
  IF a[1] = "fin" THEN a[2] > c ELSE IF a[1] = "inf" THEN a[2] > 0 ELSE FALSE
XLe(a, c) ==
  IF a[1] = "fin" THEN a[2] <= c ELSE IF a[1] = "inf" THEN a[2] < 0 ELSE FALSE
IsFinitePositive(a) == a[1] = "fin" /\ a[2] > 0

\* ------------------------------------------------------- program constants
EPSILON == 1
ClampIm == 35

\* ------------------------------------------------------------ input domains
Materials == {<<1, 0>>, <<2, 1>>, <<1, -1>>}
Thicknesses == {Fin(-1), Fin(0), Fin(1), Fin(2), PosInf, NaN}

\* ------------------------------------------------------------------- stack
InsertBeforeLastMutant(list, x) == Append(list, x)
InsertBeforeLast(list, x) ==
  SubSeq(list, 1, Len(list) - 1) \o <<x>> \o <<list[Len(list)]>>

\* the two lists after InsertLayer(idx, thickness) on the lists (nl, dl)
InsertLayerOp(nl, dl, idx, thickness) ==
  [n |-> InsertBeforeLast(nl, idx), d |-> InsertBeforeLast(dl, thickness)]

\* the two lists after AMultilayer(top, bottom)
Construct(top, bottom) == InsertLayerOp(<<bottom>>, <<inf>>, top, inf)

InsertLayer(idx, thickness) ==
  /\ Len(fRefractiveIndexList) < MaxLayers
  /\ LET r == InsertLayerOp(fRefractiveIndexList, fThicknessList, idx, thickness)
     IN /\ fRefractiveIndexList' = r.n
        /\ fThicknessList' = r.d
  /\ inserted' = Append(inserted, <<idx, thickness>>)
  /\ UNCHANGED <<ctor_args, opacity_warning, notices, call, fwd, thr>>

\* ---------------------------------------------------------- IsForwardAngle
AnswerMutant(ncostheta) ==
  IF Abs(Im(ncostheta)) >= 100 * EPSILON
    THEN Im(ncostheta) > 0
    ELSE Re(ncostheta) > 0
Answer(ncostheta) ==
  IF Abs(Im(ncostheta)) > 100 * EPSILON
    THEN Im(ncostheta) > 0
    ELSE Re(ncostheta) > 0

\* errors: the source lines of the consistency Error() calls that fire
IsForwardAngle(n, theta) ==
  LET ncostheta == CMul(n, Cos(theta))
      nconj == CMul(n, Cos(ConjAngle(theta)))
      answer == Answer(ncostheta)
  IN [answer |-> answer,
      gain |-> Re(n) * Im(n) < 0,
      errors |->
        IF answer
          THEN {l \in {77, 78, 79} :
                  \/ l = 77 /\ Im(ncostheta) <= (0 - 100) * EPSILON
                  \/ l = 78 /\ Re(ncostheta) <= (0 - 100) * EPSILON
                  \/ l = 79 /\ Re(nconj) <= (0 - 100) * EPSILON}
          ELSE {l \in {81, 82, 83} :
                  \/ l = 81 /\ Im(ncostheta) >= 100 * EPSILON
                  \/ l = 82 /\ Re(ncostheta) >= 100 * EPSILON
                  \/ l = 83 /\ Re(nconj) < 100 * EPSILON}]

\* ---------------------------------------------------------------- ListSnell
\* ARefractiveIndex::GetComplexRefractiveIndex for a constant-index medium:
\* a medium is identified with the complex index it returns
GetComplexRefractiveIndex(idx, lam_vac) == idx

\* std::asin(n_list[0] * sin(th_0) / n_list[i]), principal branch.  For a
\* layer whose index equals n_list[0] the argument is sin(th_0), whose
\* principal arcsin is th_0 or pi - th_0, whichever has Re(cos) >= 0; for
\* any other index the value is read from the solve's table asinv, whose
\* domain is the other indices.
Asin(asinv, n_list, th_0, i) ==
  IF n_list[i] = n_list[1]
    THEN (IF Re(Cos(th_0)) >= 0 THEN th_0 ELSE PiMinus(th_0))
    ELSE asinv[n_list[i]]

\* the branch of entry i corrected to the forward one
Forward(n, theta) == IF IsForwardAngle(n, theta).answer THEN theta ELSE PiMinus(theta)

CorrectedLayersMutant(num_layers) == 1 .. num_layers
\* the entries ListSnell corrects: front() and back()
CorrectedLayers(num_layers) == {1, num_layers}

ListSnell(th_0, n_list, asinv, num_layers) ==
  LET pushed == [i \in 1 .. num_layers |-> Asin(asinv, n_list, th_0, i)]
  IN [i \in 1 .. num_layers |->
        IF i \in CorrectedLayers(num_layers)
          THEN Forward(n_list[i], pushed[i])
          ELSE pushed[i]]

\* -------------------------------------------------------------- CoherentTMM
\* lines 165-166: the condition under which Error("Error in n0 or th0!") runs
InputError(n_list, th_0) ==
  \/ Abs(Im(CMul(n_list[1], Sin(th_0)))) >= 100 * EPSILON
  \/ ~IsForwardAngle(n_list[1], th_0).answer

\* line 180, componentwise: complex * complex / double
Kz(n, theta, lam_vac) ==
  LET ncos == CMul(n, Cos(theta))
  IN <<XDiv(Re(ncos), lam_vac), XDiv(Im(ncos), lam_vac)>>

NumLayersOf(list) == Len(list)

\* line 186, componentwise: complex * double
Delta(kz, d) == <<XMul(kz[1], d), XMul(kz[2], d)>>

\* one pass of the loop body of lines 195-206 on the phase d with the latch
\* value latch: the phase after it, the latch after it, the notices printed
ClampStepNoLatch(d, latch) ==
  IF XGt(Im(d), ClampIm)
    THEN [delta |-> <<Re(d), Fin(ClampIm)>>,
          latch |-> latch,
          emit |-> IF latch = FALSE THEN 1 ELSE 0]
    ELSE [delta |-> d, latch |-> latch, emit |-> 0]
ClampStepGated(d, latch) ==
  IF XGt(Im(d), ClampIm) /\ latch = FALSE
    THEN [delta |-> <<Re(d), Fin(ClampIm)>>, latch |-> TRUE, emit |-> 1]
    ELSE [delta |-> d, latch |-> latch, emit |-> 0]
ClampStep(d, latch) ==
  IF XGt(Im(d), ClampIm)
    THEN [delta |-> <<Re(d), Fin(ClampIm)>>,
          latch |-> IF latch = FALSE THEN TRUE ELSE latch,
          emit |-> IF latch = FALSE THEN 1 ELSE 0]
    ELSE [delta |-> d, latch |-> latch, emit |-> 0]

\* lines 194-207: for (i = 1; i < num_layers - 1; ++i), 1-based here
RECURSIVE ClampLoop(_, _, _, _, _)
ClampLoop(i, num_layers, delta, latch, emitted) ==
  IF i >= num_layers
    THEN [delta |-> delta, latch |-> latch, emitted |-> emitted]
    ELSE LET st == ClampStep(delta[i], latch)
         IN ClampLoop(i + 1, num_layers, [delta EXCEPT ![i] = st.delta],
                      st.latch, emitted + st.emit)

\* lines 215-229: the amplitudes t and r of one interface, each kept as the
\* unevaluated quotient <<numerator, denominator>>
Fresnel(polarization, n_i, n_f, th_i, th_f) ==
  LET cosi == Cos(th_i)
      cosf == Cos(th_f)
      ii == CMul(n_i, cosi)
  IN IF polarization = "kS"
       THEN LET ff == CMul(n_f, cosf)
            IN [t |-> <<CAdd(ii, ii), CAdd(ii, ff)>>,
                r |-> <<CSub(ii, ff), CAdd(ii, ff)>>]
       ELSE LET fi == CMul(n_f, cosi)
                if_ == CMul(n_i, cosf)
            IN [t |-> <<CAdd(ii, ii), CAdd(fi, if_)>>,
                r |-> <<CSub(fi, if_), CAdd(fi, if_)>>]

\* lines 238-257: Mtilde, kept as the factors of the product: the interface
\* matrix of layer 0 and M_list[i] for the interior layers, in order
MtildeOf(num_layers, t_list, r_list, delta) ==
  [first |-> [t |-> t_list[1], r |-> r_list[1]],
   M_list |-> [k \in 1 .. num_layers - 2 |->
                 [t |-> t_list[k + 1], r |-> r_list[k + 1], delta |-> delta[k + 1]]]]

\* lines 289-295: the flux ratio of the transmittance, <<numerator, denominator>>
FluxRatio(polarization, n_i, n_f, th_i, th_f) ==
  IF polarization = "kS"
    THEN <<Re(CMul(n_f, Cos(th_f))), Re(CMul(n_i, Cos(th_i)))>>
    ELSE <<Re(CMul(n_f, Conj(Cos(th_f)))), Re(CMul(n_i, Conj(Cos(th_i))))>>

\* lines 158-187: the indices, the angles and the phases before the clamp
Phases(nl, dl, th_0, lam_vac, asinv) ==
  LET num_layers == Len(nl)
      n_list == [i \in 1 .. num_layers |-> GetComplexRefractiveIndex(nl[i], lam_vac)]
      th_list == ListSnell(th_0, n_list, asinv, num_layers)
      kz_list == [i \in 1 .. num_layers |-> Kz(n_list[i], th_list[i], lam_vac)]
  IN [n_list |-> n_list,
      inputError |-> InputError(n_list, th_0),
      th_list |-> th_list,
      delta0 |-> [i \in 1 .. num_layers |-> Delta(kz_list[i], dl[i])]]

\* lines 209-295: the outputs written through the references reflectance
\* and transmittance (a written output is a one-element sequence): R is a
\* function of Mtilde, T of Mtilde and the flux ratio
Observables(polarization, th_0, n_list, th_list, delta) ==
  LET num_layers == Len(n_list)
      fr == [i \in 1 .. num_layers - 1 |->
               Fresnel(polarization, n_list[i], n_list[i + 1], th_list[i], th_list[i + 1])]
      t_list == [i \in 1 .. num_layers - 1 |-> fr[i].t]
      r_list == [i \in 1 .. num_layers - 1 |-> fr[i].r]
      Mtilde == MtildeOf(num_layers, t_list, r_list, delta)
  IN [reflectance |-> <<[r |-> Mtilde]>>,
      transmittance |-> <<[t |-> Mtilde,
                           flux |-> FluxRatio(polarization, n_list[1], n_list[num_layers],
                                              th_0, th_list[num_layers])]>>]

\* the whole of CoherentTMM on the lists (nl, dl), entered with the latch
\* value latch
TMM(nl, dl, polarization, th_0, lam_vac, asinv, latch) ==
  LET ph == Phases(nl, dl, th_0, lam_vac, asinv)
      cl == ClampLoop(2, Len(nl), ph.delta0, latch, 0)
      ob == Observables(polarization, th_0, ph.n_list, ph.th_list, cl.delta)
  IN [n_list |-> ph.n_list,
      inputError |-> ph.inputError,
      th_list |-> ph.th_list,
      delta0 |-> ph.delta0,
      delta |-> cl.delta,
      latch |-> cl.latch,
      emitted |-> cl.emitted,
      reflectance |-> ob.reflectance,
      transmittance |-> ob.transmittance]

\* ------------------------------------------------------------ solve inputs
Polarizations == {"kS", "kP"}
IncidentAngles ==
  {[s |-> <<0, 0>>, c |-> <<200, 0>>],
   [s |-> <<0, 0>>, c |-> <<-200, 0>>],
   [s |-> <<0, 100>>, c |-> <<200, 0>>]}
Wavelengths == {-1, 0, 1}
PrincipalAngles ==
  {[s |-> <<0, 0>>, c |-> <<200, 0>>],
   [s |-> <<0, 0>>, c |-> <<0, 35>>],
   [s |-> <<0, 0>>, c |-> <<0, -36>>]}
SolveMaterials == {<<1, 0>>, <<1, -1>>}
SolveThicknesses == {Fin(1), Fin(2), PosInf}

NoCall == [called |-> FALSE]

\* a call of CoherentTMM by a sequential caller; call records the arguments,
\* the latch value on entry and everything the call computed, until the
\* caller has taken the outputs (Return)
CoherentTMM(polarization, th_0, lam_vac, asinv) ==
  /\ call = NoCall
  /\ notices < MaxNotices
  /\ LET res == TMM(fRefractiveIndexList, fThicknessList, polarization, th_0,
                    lam_vac, asinv, opacity_warning)
     IN /\ opacity_warning' = res.latch
        /\ notices' = notices + res.emitted
        /\ call' = [called |-> TRUE,
                    nl |-> fRefractiveIndexList,
                    dl |-> fThicknessList,
                    polarization |-> polarization,
                    th_0 |-> th_0,
                    lam_vac |-> lam_vac,
                    asinv |-> asinv,
                    latch0 |-> opacity_warning,
                    res |-> res]
  /\ UNCHANGED <<stackVars, fwd, thr>>

\* ----------------------------------------------------------- specifications
NoFwd == [called |-> FALSE]
NoThreads == [t \in 1 .. MaxThreads |-> [pc |-> "idle"]]

InitOver(M) ==
  /\ \E top \in M, bottom \in M :
       /\ fRefractiveIndexList = Construct(top, bottom).n
       /\ fThicknessList = Construct(top, bottom).d
       /\ ctor_args = <<top, bottom>>
  /\ inserted = <<>>
  /\ opacity_warning = FALSE
  /\ notices = 0
  /\ call = NoCall
  /\ fwd = NoFwd
  /\ thr = NoThreads

\* the stack alone: construction and insertions with any thickness value
InitStack == InitOver(Materials)
NextStack == \E idx \in Materials, thickness \in Thicknesses : InsertLayer(idx, thickness)
SpecStack == InitStack /\ [][NextStack]_vars

\* sequential use: insertions and solves in any order
Init == InitOver(SolveMaterials)
Return ==
  /\ call # NoCall
  /\ call' = NoCall
  /\ UNCHANGED <<stackVars, opacity_warning, notices, fwd, thr>>
InsertLayerSolve ==
  /\ call = NoCall
  /\ \E idx \in SolveMaterials, thickness \in SolveThicknesses : InsertLayer(idx, thickness)
Solve ==
  \E polarization \in Polarizations, th_0 \in IncidentAngles, lam_vac \in Wavelengths,
     asinv \in [SolveMaterials \ {fRefractiveIndexList[1]} -> PrincipalAngles] :
       CoherentTMM(polarization, th_0, lam_vac, asinv)
Next == InsertLayerSolve \/ Solve \/ Return
Spec == Init /\ [][Next]_vars

\* the pure function IsForwardAngle on every index and angle of the domains
FwdIndices == {<<1, 0>>, <<2, 1>>, <<1, -1>>, <<-1, 0>>, <<0, 1>>, <<1, 1>>}
FwdParts == {-200, -100, -50, 0, 50, 100, 200}
FwdAngles == {[s |-> <<0, 0>>, c |-> <<a, b>>] : a \in FwdParts, b \in FwdParts}

InitFwd ==
  /\ fRefractiveIndexList = Construct(<<1, 0>>, <<1, 0>>).n
  /\ fThicknessList = Construct(<<1, 0>>, <<1, 0>>).d
  /\ ctor_args = <<<<1, 0>>, <<1, 0>>>>
  /\ inserted = <<>>
  /\ opacity_warning = FALSE
  /\ notices = 0
  /\ call = NoCall
  /\ thr = NoThreads
  /\ \E n \in FwdIndices, theta \in FwdAngles :
       fwd = [called |-> FALSE, n |-> n, theta |-> theta]
CallIsForwardAngle ==
  /\ ~fwd.called
  /\ fwd' = [called |-> TRUE, n |-> fwd.n, theta |-> fwd.theta,
             out |-> IsForwardAngle(fwd.n, fwd.theta)]
  /\ UNCHANGED <<stackVars, opacity_warning, notices, call, thr>>
NextFwd == CallIsForwardAngle
SpecFwd == InitFwd /\ [][NextFwd]_vars

\* solves in parallel on MaxThreads threads over one stack that no InsertLayer
\* changes meanwhile.  The latch is a plain static Bool_t: its test (line
\* 197), its store (line 198) and the Error() call (line 199) are separate
\* steps, and any thread may run between them.
ParThicknesses == {Fin(2)}
ParAngles == {[s |-> <<0, 0>>, c |-> <<200, 0>>]}
ParWavelengths == {1}
Threads == 1 .. MaxThreads

InitPar ==
  /\ \E top \in SolveMaterials, bottom \in SolveMaterials :
       /\ ctor_args = <<top, bottom>>
       /\ \E k \in 0 .. 2 :
            \E ins \in [1 .. k -> SolveMaterials \X ParThicknesses] :
              LET c0 == Construct(top, bottom)
                  c1 == IF k >= 1 THEN InsertLayerOp(c0.n, c0.d, ins[1][1], ins[1][2]) ELSE c0
                  c2 == IF k >= 2 THEN InsertLayerOp(c1.n, c1.d, ins[2][1], ins[2][2]) ELSE c1
              IN /\ fRefractiveIndexList = c2.n
                 /\ fThicknessList = c2.d
                 /\ inserted = ins
  /\ opacity_warning = FALSE
  /\ notices = 0
  /\ call = NoCall
  /\ fwd = NoFwd
  /\ thr = NoThreads

ParFrame == UNCHANGED <<stackVars, call, fwd>>

\* lines 158-187 on thread t
ParBegin(t) ==
  /\ thr[t].pc = "idle"
  /\ \E polarization \in Polarizations, th_0 \in ParAngles, lam_vac \in ParWavelengths,
        asinv \in [SolveMaterials \ {fRefractiveIndexList[1]} -> PrincipalAngles] :
       LET ph == Phases(fRefractiveIndexList, fThicknessList, th_0, lam_vac, asinv)
       IN thr' = [thr EXCEPT ![t] =
                    [pc |-> "loop", i |-> 2, polarization |-> polarization, th_0 |-> th_0,
                     n_list |-> ph.n_list, th_list |-> ph.th_list, delta |-> ph.delta0]]
  /\ UNCHANGED <<opacity_warning, notices>>
  /\ ParFrame

\* lines 194-196: the loop test, the test of the phase and its clamp
ParLoop(t) ==
  /\ thr[t].pc = "loop"
  /\ LET me == thr[t]
     IN IF me.i >= NumLayersOf(me.n_list)
          THEN thr' = [thr EXCEPT ![t].pc = "tail"]
          ELSE IF XGt(Im(me.delta[me.i]), ClampIm)
            THEN thr' = [thr EXCEPT ![t].delta[me.i] = <<Re(me.delta[me.i]), Fin(ClampIm)>>,
                                    ![t].pc = "test"]
            ELSE thr' = [thr EXCEPT ![t].i = me.i + 1]
  /\ UNCHANGED <<opacity_warning, notices>>
  /\ ParFrame

\* line 197: if (opacity_warning == kFALSE)
ParTest(t) ==
  /\ thr[t].pc = "test"
  /\ IF opacity_warning = FALSE
       THEN thr' = [thr EXCEPT ![t].pc = "set"]
       ELSE thr' = [thr EXCEPT ![t].pc = "loop", ![t].i = thr[t].i + 1]
  /\ UNCHANGED <<opacity_warning, notices>>
  /\ ParFrame

\* line 198: opacity_warning = kTRUE
ParSet(t) ==
  /\ thr[t].pc = "set"
  /\ opacity_warning' = TRUE
  /\ thr' = [thr EXCEPT ![t].pc = "print"]
  /\ UNCHANGED notices
  /\ ParFrame

\* lines 199-204: Error("CoherentTMM", "Warning: ...")
ParPrint(t) ==
  /\ thr[t].pc = "print"
  /\ notices' = notices + 1
  /\ thr' = [thr EXCEPT ![t].pc = "loop", ![t].i = thr[t].i + 1]
  /\ UNCHANGED opacity_warning
  /\ ParFrame

\* lines 209-295
ParTail(t) ==
  /\ thr[t].pc = "tail"
  /\ LET me == thr[t]
         ob == Observables(me.polarization, me.th_0, me.n_list, me.th_list, me.delta)
     IN thr' = [thr EXCEPT ![t] = [pc |-> "done", reflectance |-> ob.reflectance,
                                   transmittance |-> ob.transmittance]]
  /\ UNCHANGED <<opacity_warning, notices>>
  /\ ParFrame

\* the caller of thread t takes the outputs
ParReturn(t) ==
  /\ thr[t].pc = "done"
  /\ thr' = [thr EXCEPT ![t] = [pc |-> "idle"]]
  /\ UNCHANGED <<opacity_warning, notices>>
  /\ ParFrame

NextPar ==
  \E t \in Threads :
    \/ ParBegin(t)
    \/ ParLoop(t)
    \/ ParTest(t)
    \/ ParSet(t)
    \/ ParPrint(t)
    \/ ParTail(t)
    \/ ParReturn(t)
SpecPar == InitPar /\ [][NextPar]_vars

\* ================================================================== claims
NumLayers == Len(fRefractiveIndexList)

\* C1: after Construct(top, bottom) and k insertions the stack has k + 2
\* layers, top first and bottom last with thickness +inf, the inserted
\* layers between them in insertion order; the two lists have equal length.
C1_StackShape ==
  /\ Len(fRefractiveIndexList) = Len(fThicknessList)
  /\ NumLayers = Len(inserted) + 2
  /\ NumLayers >= 2
  /\ fRefractiveIndexList[1] = ctor_args[1]
  /\ fThicknessList[1] = PosInf
  /\ fRefractiveIndexList[NumLayers] = ctor_args[2]
  /\ fThicknessList[NumLayers] = PosInf
  /\ \A k \in 1 .. Len(inserted) :
       /\ fRefractiveIndexList[k + 1] = inserted[k][1]
       /\ fThicknessList[k + 1] = inserted[k][2]
C1_Witness ==
  /\ Len(inserted) >= 2
  /\ inserted[1] # inserted[2]
  /\ ctor_args[1] # ctor_args[2]

\* C2: every interior layer (positions 1..N-2) has a positive finite
\* thickness, whatever thickness values InsertLayer was called with.
C2_InteriorThicknessPositiveFinite ==
  \A i \in 2 .. Len(fThicknessList) - 1 : IsFinitePositive(fThicknessList[i])

\* the interior layers whose phase the clamp changed in the recorded call
Clamped(c) == {i \in 2 .. Len(c.nl) - 1 : XGt(Im(c.res.delta0[i]), ClampIm)}

\* the validation conditions of a solve's inputs
InvalidInputs(c) ==
  \/ c.lam_vac <= 0
  \/ Abs(Im(CMul(c.nl[1], c.th_0.s))) >= 100 * EPSILON
  \/ ~IsForwardAngle(c.nl[1], c.th_0).answer

\* C3: a solve whose inputs fail validation writes neither output and
\* leaves the stack unchanged.
C3_NoResultOnInvalidInput ==
  (call.called /\ InvalidInputs(call)) =>
     /\ Len(call.res.reflectance) = 0
     /\ Len(call.res.transmittance) = 0
     /\ call.nl = fRefractiveIndexList
     /\ call.dl = fThicknessList

\* C4: over any sequence of solves the opacity notice is printed at most
\* once: in the first solve that clamps some interior layer, once however
\* many layers it clamps, and never after; the latch is never reset.
C4_NoticeAtMostOnce ==
  [][/\ notices' <= 1
     /\ opacity_warning => opacity_warning'
     /\ notices' # notices => notices' = notices + 1
     /\ (notices' # notices) <=>
          (call = NoCall /\ call'.called /\ ~opacity_warning /\ Clamped(call') # {})
     /\ opacity_warning' <=> (notices' = 1)]_vars
C4_Witness ==
  /\ call.called
  /\ call.latch0
  /\ notices = 1
  /\ Cardinality(Clamped(call)) >= 2

\* C5: the solve that ran, run again on the same inputs from the opposite
\* latch value, gives the same reflectance and transmittance and the same
\* phases after the clamp.
C5_LatchDoesNotAffectResult ==
  call.called =>
    LET o == TMM(call.nl, call.dl, call.polarization, call.th_0, call.lam_vac,
                 call.asinv, ~call.latch0)
    IN /\ o.reflectance = call.res.reflectance
       /\ o.transmittance = call.res.transmittance
       /\ o.delta = call.res.delta
C5_Witness ==
  /\ call.called
  /\ call.latch0
  /\ Clamped(call) # {}
  /\ ~InvalidInputs(call)

\* the principal arcsin of layer i in the recorded call, from its inputs
PrincipalOf(c, i) ==
  IF c.nl[i] = c.nl[1]
    THEN (IF c.th_0.c[1] >= 0 THEN c.th_0 ELSE [s |-> c.th_0.s, c |-> CNeg(c.th_0.c)])
    ELSE c.asinv[c.nl[i]]

\* C8: ListSnell yields one angle per layer; interior entries are the
\* principal arcsin values; entries 0 and N-1 are pi - theta exactly when
\* IsForwardAngle is false for the principal value, else the principal value.
C8_ListSnell ==
  call.called =>
    LET N == Len(call.nl)
        th == call.res.th_list
    IN /\ DOMAIN th = 1 .. N
       /\ \A i \in 2 .. N - 1 : th[i] = PrincipalOf(call, i)
       /\ \A i \in {1, N} :
            LET p == PrincipalOf(call, i)
            IN th[i] = IF IsForwardAngle(call.nl[i], p).answer
                         THEN p
                         ELSE [s |-> p.s, c |-> CNeg(p.c)]
C8_Witness ==
  /\ call.called
  /\ Len(call.nl) >= 3
  /\ \E i \in 2 .. Len(call.nl) - 1 :
       ~IsForwardAngle(call.nl[i], call.res.th_list[i]).answer
  /\ call.res.th_list[1] # PrincipalOf(call, 1)
  /\ call.res.th_list[Len(call.nl)] # PrincipalOf(call, Len(call.nl))

\* C9: after the clamp every interior phase has Im(delta) <= 35; a phase
\* with Im(delta) > 35 became Re(delta) + 35i, any other is unchanged, and
\* the phases of layers 0 and N-1 are never clamped.
C9_InteriorPhasesClamped ==
  call.called =>
    LET N == Len(call.nl)
        d0 == call.res.delta0
        d == call.res.delta
    IN /\ \A i \in 2 .. N - 1 :
            /\ XLe(Im(d[i]), ClampIm)
            /\ XGt(Im(d0[i]), ClampIm) => d[i] = <<Re(d0[i]), Fin(ClampIm)>>
            /\ XLe(Im(d0[i]), ClampIm) => d[i] = d0[i]
       /\ d[1] = d0[1]
       /\ d[N] = d0[N]

\* C6: IsForwardAngle returns true exactly when Im(n cos(theta)) > 0 beyond
\* the tolerance, or Re(n cos(theta)) > 0 within it, whatever the gain flag
\* and the consistency errors.
C6_ForwardAnswer ==
  fwd.called =>
    LET re == fwd.n[1] * fwd.theta.c[1] - fwd.n[2] * fwd.theta.c[2]
        im == fwd.n[1] * fwd.theta.c[2] + fwd.n[2] * fwd.theta.c[1]
    IN fwd.out.answer <=>
         \/ (im > 100 * EPSILON \/ im < (0 - 100) * EPSILON) /\ im > 0
         \/ (im <= 100 * EPSILON /\ im >= (0 - 100) * EPSILON) /\ re > 0
C6_Witness ==
  /\ fwd.called
  /\ fwd.out.answer
  /\ fwd.out.gain
  /\ fwd.out.errors # {}

\* C7: a consistency error is printed only when one of Re(n cos(theta)),
\* Im(n cos(theta)), Re(n cos(conj(theta))) contradicts the answer by the
\* tolerance: <= -100 eps for "forward", >= 100 eps for "not forward".
C7_ErrorsOnlyOnContradiction ==
  fwd.called =>
    LET re == fwd.n[1] * fwd.theta.c[1] - fwd.n[2] * fwd.theta.c[2]
        im == fwd.n[1] * fwd.theta.c[2] + fwd.n[2] * fwd.theta.c[1]
        rc == fwd.n[1] * fwd.theta.c[1] + fwd.n[2] * fwd.theta.c[2]
    IN fwd.out.errors # {} =>
         IF fwd.out.answer
           THEN \E x \in {re, im, rc} : x <= (0 - 100) * EPSILON
           ELSE \E x \in {re, im, rc} : x >= 100 * EPSILON

\* C10: with solves running in parallel the opacity notice is printed at
\* most once, under every interleaving of the latch's test and store.
C10_ParallelNoticeAtMostOnce == notices <= 1

====
